---------------------------- MODULE Spec2Model ----------------------------
(***************************************************************************)
(* Model of rss-la-nit: the De Nit scraper (src/scraper.py) and the RSS    *)
(* generator (src/generate_rss.py).                                        *)
(*                                                                         *)
(* Python values are modelled as follows.  A string is a TLA+ string, the  *)
(* value None is the string None, a dictionary key that is missing has the *)
(* value Absent.  An Optional[Dict] is a sequence of length 0 (None) or 1. *)
(* Duration strings are sequences of one-character strings, so that the    *)
(* regular expression of _parse_duration is executed on them.              *)
(***************************************************************************)
EXTENDS Integers, Sequences, FiniteSets, TLC

VARIABLES
    \* ---- one call of DeNitScraper.get_episode_details
    page,            \* the episode page the server holds
    ex_pc,           \* "start" | "returned"
    ex_fetch,        \* outcome of session.get(episode_url): "ok" | "error" | "-"
    ex_api,          \* what the API answered, NotCalled when it was not asked
    ex_api_calls,    \* number of session.get(api_url) calls made
    ex_result        \* the Optional[Dict] returned

ex_vars == <<page, ex_pc, ex_fetch, ex_api, ex_api_calls, ex_result>>

VARIABLES
    \* ---- one call of DeNitScraper.get_episodes_list
    listing,         \* the href of every <a href> of the program page, in page order
    max_episodes,    \* the argument
    sc_pc,           \* "start" | "loop" | "done"
    listing_fetch,   \* outcome of session.get(PROGRAM_URL): "ok" | "error" | "-"
    episode_links,   \* the local episode_links after line 210
    sc_i,            \* index of the next element of episode_links to process
    episodes,        \* the local episodes, returned at "done"
    visited          \* history: <<url, result>> of every get_episode_details call

sc_vars == <<listing, max_episodes, sc_pc, listing_fetch, episode_links, sc_i, episodes, visited>>

VARIABLES
    \* ---- one call of RSSGenerator._parse_duration
    duration_str,    \* the argument, a sequence of characters
    du_pc,           \* "start" | "returned"
    duration_out     \* the string returned, a sequence of characters

du_vars == <<duration_str, du_pc, duration_out>>

VARIABLES
    \* ---- one run of generate_rss.main
    input_file,      \* what is at args.input
    gen_pc,          \* "start" | "adding" | "not_found" | "invalid_json" | "crashed" | "finished"
    loaded,          \* the local episodes: the value json.load returned
    gen_k,           \* index of the next element add_episodes iterates over
    entries,         \* the entries of the FeedGenerator, in document order
    feed_written     \* whether rss_file wrote args.output

gen_vars == <<input_file, gen_pc, loaded, gen_k, entries, feed_written>>

vars == <<ex_vars, sc_vars, du_vars, gen_vars>>

-----------------------------------------------------------------------------
(* Python values *)

None == "<None>"
Absent == "<absent>"

\* bool(v) of a str-or-None value; a missing key never reaches bool()
Truthy(v) == v \notin {None, Absent, ""}

NoDict == <<>>
Some(d) == <<d>>

-----------------------------------------------------------------------------
(* Bounds *)

MaxScripts == 2
MaxLinks == 3
MaxEpisodes == 2
MaxDurationLen == 6
MaxRecords == 2

-----------------------------------------------------------------------------
(* Episode pages *)

\* What json.loads(script.string) / data.get('@type') does on one script tag:
\*   "empty"      script.string is None: json.loads raises TypeError
\*   "malformed"  json.JSONDecodeError
\*   "not_object" a JSON array, string, number or null: .get raises AttributeError
\*   "other_type" an object whose @type is not an episode/audio type
\*   "episode"    an object whose @type is AudioObject, Episode or PodcastEpisode
ScriptKinds == {"empty", "malformed", "not_object", "other_type", "episode"}

RECURSIVE SeqsUpTo(_, _)
SeqsUpTo(S, n) ==
    IF n = 0 THEN {<<>>}
    ELSE LET shorter == SeqsUpTo(S, n - 1)
         IN  shorter \cup {Append(s, x) : s \in {t \in shorter : Len(t) = n - 1}, x \in S}

\* The attributes of the first episode-typed ld+json object of the page.
LdOptional ==
    { [description |-> Absent, uploadDate |-> Absent, duration |-> Absent, thumbnailUrl |-> Absent],
      [description |-> "ld description", uploadDate |-> Absent, duration |-> "PT1H", thumbnailUrl |-> Absent],
      [description |-> Absent, uploadDate |-> "2024-01-02T03:04:05", duration |-> Absent, thumbnailUrl |-> "ld.jpg"],
      [description |-> "ld description", uploadDate |-> "2024-01-02T03:04:05", duration |-> "PT1H", thumbnailUrl |-> "ld.jpg"] }

LdObjects ==
    { [name |-> n, contentUrl |-> c, description |-> o.description, uploadDate |-> o.uploadDate,
       duration |-> o.duration, thumbnailUrl |-> o.thumbnailUrl] :
         n \in {Absent, None, "", "ld title"}, c \in {Absent, None, "ld.mp3"}, o \in LdOptional }

NoLd == [name |-> Absent, contentUrl |-> Absent, description |-> Absent, uploadDate |-> Absent,
         duration |-> Absent, thumbnailUrl |-> Absent]

\* The markup of the page: h1 is the stripped text of the heading found by
\* soup.find('h1', class_='title') or soup.find('h1'); the others are the
\* attribute read from the tag; Absent when the page has no such tag.
MarkupOptional ==
    { [meta_description |-> Absent, time_datetime |-> Absent, og_image |-> Absent],
      [meta_description |-> "meta description", time_datetime |-> Absent, og_image |-> Absent],
      [meta_description |-> Absent, time_datetime |-> "", og_image |-> "og.jpg"],
      [meta_description |-> "meta description", time_datetime |-> "2024-01-02", og_image |-> "og.jpg"] }

HasEpisodeScript(scripts) == \E i \in 1..Len(scripts) : scripts[i] = "episode"

Pages ==
    { [scripts |-> s, ld |-> l, h1 |-> h, meta_description |-> m.meta_description,
       time_datetime |-> m.time_datetime, og_image |-> m.og_image] :
         s \in SeqsUpTo(ScriptKinds, MaxScripts), l \in LdObjects \cup {NoLd},
         h \in {Absent, "", "h1 title"}, m \in MarkupOptional }

\* a page without an episode-typed object has no attributes of one
WellFormedPage(p) == IF HasEpisodeScript(p.scripts) THEN p.ld \in LdObjects ELSE p.ld = NoLd

-----------------------------------------------------------------------------
(* The RTVE API answer to /api/audios/<id>.json *)

NotCalled == [kind |-> "not_called", items |-> <<>>]

ApiItems ==
    { <<>>,
      <<[url |-> "api.mp3", audioUrl |-> Absent]>>,
      <<[url |-> Absent, audioUrl |-> "api-audio.mp3"]>>,
      <<[url |-> None, audioUrl |-> "api-audio.mp3"]>>,
      <<[url |-> Absent, audioUrl |-> Absent], [url |-> "api.mp3", audioUrl |-> Absent]>> }

\*   "error"      session.get raises (connection error, timeout)
\*   "http_error" status_code is not 200
\*   "not_json"   response.json() raises
\*   "no_items"   a JSON document without page.items
\*   "items"      a JSON document whose page.items is the sequence items
ApiResponses ==
    { [kind |-> k, items |-> <<>>] : k \in {"error", "http_error", "not_json", "no_items"} }
      \cup { [kind |-> "items", items |-> it] : it \in ApiItems }

-----------------------------------------------------------------------------
(* DeNitScraper._extract_json_data *)

\* Result: [raised |-> TRUE] when an exception leaves the function,
\* otherwise data is the Optional[Dict] returned.
RECURSIVE _extract_json_data(_, _)
_extract_json_data(scripts, ld) ==
    IF scripts = <<>> THEN [raised |-> FALSE, data |-> NoDict]
    ELSE CASE Head(scripts) = "empty" -> [raised |-> TRUE, data |-> NoDict]
           [] Head(scripts) = "episode" -> [raised |-> FALSE, data |-> Some(ld)]
           [] OTHER -> _extract_json_data(Tail(scripts), ld)

\* json_data and '<key>' in json_data
HasKey(json_data, key) == json_data # NoDict /\ json_data[1][key] # Absent

(* DeNitScraper._extract_audio_url; api is the answer the API gives if asked *)

RECURSIVE FirstItemUrl(_)
FirstItemUrl(items) ==
    IF items = <<>> THEN None
    ELSE IF Head(items).url # Absent THEN Head(items).url
    ELSE IF Head(items).audioUrl # Absent THEN Head(items).audioUrl
    ELSE FirstItemUrl(Tail(items))

\* as if the code tested json_data.get('contentUrl') instead of the key
ContentUrlTruthy(json_data) == json_data # NoDict /\ Truthy(json_data[1].contentUrl)

\* json_data and 'contentUrl' in json_data
ContentUrlWins(json_data) == HasKey(json_data, "contentUrl")

_extract_audio_url(json_data, api) ==
    IF ContentUrlWins(json_data)
    THEN [audio_url |-> json_data[1].contentUrl, api_calls |-> 0, api |-> NotCalled]
    ELSE [audio_url |-> IF api.kind = "items" THEN FirstItemUrl(api.items) ELSE None,
          api_calls |-> 1, api |-> api]

-----------------------------------------------------------------------------
(* DeNitScraper.get_episode_details *)

\* A URL or href is [host, segs, slash]: host is "" for a relative href,
\* segs are the path segments, slash says whether the path ends in "/".
BASE_URL == "https://www.rtve.es"
ProgramSegs == <<"play", "audios", "de-nit">>
PROGRAM_URL == [host |-> BASE_URL, segs |-> ProgramSegs, slash |-> TRUE]

Url(host, segs, slash) == [host |-> host, segs |-> segs, slash |-> slash]

\* episode_url.rstrip('/').split('/')[-1]
EpisodeIdOf(url) == IF url.segs = <<>> THEN url.host ELSE url.segs[Len(url.segs)]

Title(json_data, p) ==
    IF HasKey(json_data, "name") THEN json_data[1].name
    ELSE IF p.h1 # Absent THEN p.h1 ELSE None

FromLdOrMarkup(json_data, key, markup) ==
    IF HasKey(json_data, key) THEN json_data[1][key]
    ELSE IF markup # Absent THEN markup ELSE None

\* fetch is the outcome of session.get + raise_for_status on the episode URL
EpisodeDetails(episode_url, fetch, p, api) ==
    LET j == _extract_json_data(p.scripts, p.ld)
        json_data == j.data
        audio == _extract_audio_url(json_data, api)
        title == Title(json_data, p)
        description == FromLdOrMarkup(json_data, "description", p.meta_description)
    IN  IF fetch # "ok" \/ j.raised
        THEN [result |-> NoDict, api_calls |-> 0, api |-> NotCalled]
        ELSE [result |->
                IF ~Truthy(title) THEN NoDict
                ELSE Some([id |-> EpisodeIdOf(episode_url),
                           url |-> episode_url,
                           title |-> title,
                           description |-> IF Truthy(description) THEN description ELSE "",
                           pub_date |-> FromLdOrMarkup(json_data, "uploadDate", p.time_datetime),
                           duration |-> FromLdOrMarkup(json_data, "duration", Absent),
                           image_url |-> FromLdOrMarkup(json_data, "thumbnailUrl", p.og_image),
                           audio_url |-> audio.audio_url]),
              api_calls |-> audio.api_calls,
              api |-> audio.api]

ExtractUrl == Url(BASE_URL, Append(ProgramSegs, "ep"), TRUE)

get_episode_details ==
    /\ ex_pc = "start"
    /\ \E fetch \in {"ok", "error"}, api \in ApiResponses :
         LET d == EpisodeDetails(ExtractUrl, fetch, page, api)
         IN  /\ ex_fetch' = fetch
             /\ ex_api' = d.api
             /\ ex_api_calls' = d.api_calls
             /\ ex_result' = d.result
    /\ ex_pc' = "returned"
    /\ UNCHANGED <<page, sc_vars, du_vars, gen_vars>>

ExtractIdle ==
    /\ ex_pc = "start"
    /\ ex_fetch = "-"
    /\ ex_api = NotCalled
    /\ ex_api_calls = 0
    /\ ex_result = NoDict

ScraperIdle ==
    /\ sc_pc = "start"
    /\ listing_fetch = "-"
    /\ episode_links = <<>>
    /\ sc_i = 1
    /\ episodes = <<>>
    /\ visited = <<>>

FirstPage == CHOOSE p \in Pages : WellFormedPage(p)

DurationIdle ==
    /\ du_pc = "start"
    /\ duration_out = <<>>

GeneratorIdle ==
    /\ gen_pc = "start"
    /\ loaded = [type |-> "null", items |-> <<>>]
    /\ gen_k = 1
    /\ entries = <<>>
    /\ feed_written = FALSE

OthersIdle ==
    /\ duration_str = <<>> /\ DurationIdle
    /\ input_file = [kind |-> "missing", value |-> [type |-> "null", items |-> <<>>]]
    /\ GeneratorIdle

ExtractInit ==
    /\ page \in {p \in Pages : WellFormedPage(p)}
    /\ ExtractIdle
    /\ listing = <<>> /\ max_episodes = 0
    /\ ScraperIdle
    /\ OthersIdle

ExtractNext == get_episode_details

SpecExtract == ExtractInit /\ [][ExtractNext]_vars

-----------------------------------------------------------------------------
(* DeNitScraper.get_episodes_list: discovery *)

\* the hrefs a program page may hold
Hrefs ==
    { Url(BASE_URL, ProgramSegs, TRUE),                     \* the program page, absolute
      Url("", ProgramSegs, TRUE),                           \* the program page, relative
      Url("", Append(ProgramSegs, "ep1"), TRUE),            \* /play/audios/de-nit/ep1/
      Url(BASE_URL, Append(ProgramSegs, "ep1"), TRUE),      \* the same episode, absolute
      Url("", Append(ProgramSegs, "ep2"), FALSE),           \* /play/audios/de-nit/ep2
      Url("", <<"radio">>, TRUE) }                          \* /radio/

Listings == SeqsUpTo(Hrefs, MaxLinks)

\* '/play/audios/de-nit/' in href
ContainsProgramPath(href) ==
    \E i \in 1..Len(href.segs) :
        /\ i + 2 <= Len(href.segs)
        /\ SubSeq(href.segs, i, i + 2) = ProgramSegs
        /\ (i + 2 < Len(href.segs) \/ href.slash)

\* urljoin(BASE_URL, href)
urljoin(base, href) == IF href.host = "" THEN [href EXCEPT !.host = base] ELSE href

\* href != self.PROGRAM_URL
NotTheProgramUrl(href) == href # PROGRAM_URL

\* as if the code tested href not in episode_links
NotYetListedByHref(full_url, href, links) == \A k \in 1..Len(links) : links[k] # href

\* full_url not in episode_links
NotYetListed(full_url, href, links) == \A k \in 1..Len(links) : links[k] # full_url

\* lines 199-207: the loop over soup.find_all('a', href=True)
RECURSIVE CollectLinks(_, _)
CollectLinks(hrefs, links) ==
    IF hrefs = <<>> THEN links
    ELSE LET href == Head(hrefs)
             full_url == urljoin(BASE_URL, href)
         IN  CollectLinks(Tail(hrefs),
                 IF ContainsProgramPath(href) /\ NotTheProgramUrl(href)
                        /\ NotYetListed(full_url, href, links)
                 THEN Append(links, full_url)
                 ELSE links)

\* episode_links[:max_episodes], max_episodes >= 0
Truncate(links, n) == SubSeq(links, 1, IF n < Len(links) THEN n ELSE Len(links))

DiscoverLinks(hrefs, n) == Truncate(CollectLinks(hrefs, <<>>), n)

\* lines 193-212; a failed fetch is caught at line 221 and the empty list returned
fetch_listing ==
    /\ sc_pc = "start"
    /\ \E fetch \in {"ok", "error"} :
         /\ listing_fetch' = fetch
         /\ episode_links' = IF fetch = "ok" THEN DiscoverLinks(listing, max_episodes) ELSE <<>>
         /\ sc_pc' = IF fetch = "ok" /\ DiscoverLinks(listing, max_episodes) # <<>>
                     THEN "loop" ELSE "done"
    /\ UNCHANGED <<listing, max_episodes, sc_i, episodes, visited, ex_vars, du_vars, gen_vars>>

-----------------------------------------------------------------------------
(* DeNitScraper.get_episodes_list: the loop over episode_links *)

\* What the server may answer for one episode of a batch.
BatchPages ==
    { p \in Pages :
        /\ WellFormedPage(p)
        /\ p.scripts \in {<<>>, <<"empty">>, <<"malformed">>, <<"episode">>}
        /\ p.ld \in {NoLd, [NoLd EXCEPT !.name = "ld title", !.contentUrl = "ld.mp3"],
                           [NoLd EXCEPT !.name = ""]}
        /\ p.meta_description = Absent /\ p.time_datetime = Absent /\ p.og_image = Absent
        /\ p.h1 \in {Absent, "h1 title"} }

BatchApi == [kind |-> "error", items |-> <<>>]

\* as if a failed episode ended the loop
LoopStopsOnFailure(episode_data) == episode_data # NoDict

\* lines 175-177: get_episode_details catches every Exception of one episode
\* and returns None, so the loop of get_episodes_list always goes on
LoopGoesOn(episode_data) == TRUE

\* lines 218-219
Collected(eps, episode_data) ==
    IF episode_data # NoDict THEN Append(eps, episode_data[1]) ELSE eps

\* one iteration of lines 215-219
process_episode ==
    /\ sc_pc = "loop"
    /\ \E fetch \in {"ok", "error"}, p \in BatchPages :
         LET episode_url == episode_links[sc_i]
             episode_data == EpisodeDetails(episode_url, fetch, p, BatchApi).result
         IN  /\ visited' = Append(visited, <<episode_url, episode_data>>)
             /\ episodes' = Collected(episodes, episode_data)
             /\ sc_pc' = IF LoopGoesOn(episode_data) /\ sc_i < Len(episode_links)
                         THEN "loop" ELSE "done"
    /\ sc_i' = sc_i + 1
    /\ UNCHANGED <<listing, max_episodes, listing_fetch, episode_links, ex_vars, du_vars, gen_vars>>

ScraperInit ==
    /\ listing \in Listings
    /\ max_episodes \in 0..MaxEpisodes
    /\ ScraperIdle
    /\ page = FirstPage
    /\ ExtractIdle
    /\ OthersIdle

ScraperNext == fetch_listing \/ process_episode

SpecScraper == ScraperInit /\ [][ScraperNext]_vars

-----------------------------------------------------------------------------
(* RSSGenerator._parse_duration *)

Chars == {"P", "T", "H", "M", "S", "0", "1"}
Digits == {"0", "1", "2", "3", "4", "5", "6", "7", "8", "9"}

DigitValue(c) ==
    CASE c = "0" -> 0 [] c = "1" -> 1 [] c = "2" -> 2 [] c = "3" -> 3 [] c = "4" -> 4
      [] c = "5" -> 5 [] c = "6" -> 6 [] c = "7" -> 7 [] c = "8" -> 8 [] c = "9" -> 9

DigitChar(d) == <<"0", "1", "2", "3", "4", "5", "6", "7", "8", "9">>[d + 1]

\* int(digits)
RECURSIVE IntOf(_)
IntOf(digits) ==
    IF digits = <<>> THEN 0
    ELSE 10 * IntOf(SubSeq(digits, 1, Len(digits) - 1)) + DigitValue(digits[Len(digits)])

\* str(n), n >= 0
RECURSIVE StrOf(_)
StrOf(n) == IF n < 10 THEN <<DigitChar(n)>> ELSE StrOf(n \div 10) \o <<DigitChar(n % 10)>>

\* f"{n:02d}": zero-padded to a width of at least 2
Format02d(n) == IF n < 10 THEN <<"0">> \o StrOf(n) ELSE StrOf(n)

\* the index after the longest run of digits of s that starts at i
RECURSIVE DigitsEnd(_, _)
DigitsEnd(s, i) == IF i <= Len(s) /\ s[i] \in Digits THEN DigitsEnd(s, i + 1) ELSE i

\* (?:(\d+)X)? at position i: the group matches when a non-empty run of
\* digits is followed by X, and otherwise matches the empty string
OptionalGroup(s, i, letter) ==
    LET j == DigitsEnd(s, i)
    IN  IF j > i /\ j <= Len(s) /\ s[j] = letter
        THEN [value |-> IntOf(SubSeq(s, i, j - 1)), next |-> j + 1]
        ELSE [value |-> 0, next |-> i]

ZeroDuration == <<"0", "0", ":", "0", "0", ":", "0", "0">>

\* re.match(r'PT', duration_str)
MatchesPT(s) == Len(s) >= 2 /\ s[1] = "P" /\ s[2] = "T"

FormatDuration(hours, minutes, seconds) ==
    Format02d(hours) \o <<":">> \o Format02d(minutes) \o <<":">> \o Format02d(seconds)

ParseDuration(s) ==
    IF s = <<>> THEN ZeroDuration
    ELSE IF MatchesPT(s)
    THEN LET h == OptionalGroup(s, 3, "H")
             m == OptionalGroup(s, h.next, "M")
             sec == OptionalGroup(s, m.next, "S")
         IN  FormatDuration(h.value, m.value, sec.value)
    ELSE ZeroDuration

_parse_duration ==
    /\ du_pc = "start"
    /\ duration_out' = ParseDuration(duration_str)
    /\ du_pc' = "returned"
    /\ UNCHANGED <<duration_str, ex_vars, sc_vars, gen_vars>>

DurationInit ==
    /\ duration_str \in SeqsUpTo(Chars, MaxDurationLen)
    /\ DurationIdle
    /\ page = FirstPage /\ ExtractIdle
    /\ listing = <<>> /\ max_episodes = 0 /\ ScraperIdle
    /\ input_file = [kind |-> "missing", value |-> [type |-> "null", items |-> <<>>]]
    /\ GeneratorIdle

DurationNext == _parse_duration

SpecDuration == DurationInit /\ [][DurationNext]_vars

-----------------------------------------------------------------------------
(* generate_rss: the input file *)

\* A JSON value is [type, items]; items is what a Python for loop over the
\* loaded value yields: the elements of an array, the keys of an object, the
\* characters of a string.  An element is a dictionary (is_dict) with the
\* episode keys, or something else.  An Optional[str] duration is a sequence
\* of length 0 (null) or 1.
NotADict ==
    [is_dict |-> FALSE, title |-> Absent, url |-> Absent, id |-> Absent, description |-> Absent,
     pub_date |-> Absent, duration |-> NoDict, image_url |-> Absent, audio_url |-> Absent]

RecordRest ==
    { [url |-> "https://www.rtve.es/play/audios/de-nit/ep1/", description |-> "text",
       pub_date |-> "2024-01-02T03:04:05", duration |-> Some(<<"P", "T", "1", "H", "5", "S">>),
       image_url |-> "ep1.jpg"],
      [url |-> "", description |-> "", pub_date |-> None, duration |-> NoDict, image_url |-> None],
      [url |-> "https://www.rtve.es/play/audios/de-nit/ep1/", description |-> "",
       pub_date |-> "not a date", duration |-> Some(<<>>), image_url |-> ""] }

AudioUrls == {Absent, None, "", "ep1.mp3", "ep1.m4a"}

\* well-formed episode records: dictionaries with a non-empty title
Records ==
    { [is_dict |-> TRUE, title |-> t, url |-> r.url, id |-> "ep1", description |-> r.description,
       pub_date |-> r.pub_date, duration |-> r.duration, image_url |-> r.image_url,
       audio_url |-> a] : t \in {"A", "B"}, a \in AudioUrls, r \in RecordRest }

JsonValue(type, items) == [type |-> type, items |-> items]

JsonValues ==
    { JsonValue("null", <<>>), JsonValue("number", <<>>),
      JsonValue("object", <<>>), JsonValue("object", <<NotADict>>),
      JsonValue("string", <<>>), JsonValue("string", <<NotADict>>),
      JsonValue("array", <<NotADict>>) }
      \cup { JsonValue("array", recs) : recs \in SeqsUpTo(Records, MaxRecords) }

InputFiles ==
    { [kind |-> k, value |-> JsonValue("null", <<>>)] : k \in {"missing", "invalid_json"} }
      \cup { [kind |-> "json", value |-> v] : v \in JsonValues }

\* the input holds an array of episode records
ValidInput(f) ==
    /\ f.kind = "json" /\ f.value.type = "array"
    /\ \A i \in 1..Len(f.value.items) : f.value.items[i].is_dict

-----------------------------------------------------------------------------
(* RSSGenerator._parse_date and RSSGenerator.add_episode *)

\* dateutil's parser on the date strings of the model
Parseable(date_str) == date_str \in {"2024-01-02T03:04:05"}

\* "now" is datetime.now(timezone.utc)
_parse_date(date_str) ==
    IF ~Truthy(date_str) THEN [now |-> TRUE, wall |-> "", tz |-> "UTC"]
    ELSE IF Parseable(date_str) THEN [now |-> FALSE, wall |-> date_str, tz |-> "UTC"]
    ELSE [now |-> TRUE, wall |-> "", tz |-> "UTC"]

EndsWith(url, suffix) == <<url, suffix>> \in {<<"ep1.m4a", ".m4a">>, <<"ep1.ogg", ".ogg">>}

MimeType(audio_url) ==
    IF EndsWith(audio_url, ".m4a") THEN "audio/mp4"
    ELSE IF EndsWith(audio_url, ".ogg") THEN "audio/ogg"
    ELSE "audio/mpeg"

\* as if the code tested audio_url is not None
HasEnclosureUnlessNone(audio_url) == audio_url # None

\* if audio_url:
HasEnclosure(audio_url) == Truthy(audio_url)

Get(v, default) == IF v = Absent THEN default ELSE v

\* the entry add_episode fills; a field the code does not set is Absent
FeedEntry(episode_data) ==
    LET episode_url == Get(episode_data.url, "")
        audio_url == Get(episode_data.audio_url, None)
        duration == episode_data.duration
        image_url == Get(episode_data.image_url, None)
    IN  [title |-> Get(episode_data.title, "Sin titulo"),
         description |-> Get(episode_data.description, ""),
         link |-> IF Truthy(episode_url) THEN episode_url ELSE Absent,
         guid |-> IF Truthy(episode_url) THEN <<episode_url>>
                  ELSE <<"de-nit-", Get(episode_data.id, "")>>,
         pubDate |-> Some(_parse_date(Get(episode_data.pub_date, ""))),
         enclosure |-> IF HasEnclosure(audio_url)
                       THEN Some([url |-> audio_url, type |-> MimeType(audio_url), length |-> "0"])
                       ELSE NoDict,
         itunes_duration |-> IF duration # NoDict /\ duration[1] # <<>>
                             THEN Some(ParseDuration(duration[1])) ELSE NoDict,
         itunes_image |-> IF Truthy(image_url) THEN image_url ELSE Absent,
         author |-> "RTVE"]

\* the entry add_entry() creates, before add_episode sets anything
BlankEntry ==
    [title |-> Absent, description |-> Absent, link |-> Absent, guid |-> <<>>, pubDate |-> NoDict,
     enclosure |-> NoDict, itunes_duration |-> NoDict, itunes_image |-> Absent, author |-> Absent]

\* self.fg.add_entry(): feedgen's FeedGenerator.add_entry(feedEntry=None,
\* order='prepend') inserts the new entry at the beginning of the feed
add_entry(feed_entries, fe) == <<fe>> \o feed_entries

-----------------------------------------------------------------------------
(* generate_rss.main *)

\* lines 190-198
load_input ==
    /\ gen_pc = "start"
    /\ gen_pc' = CASE input_file.kind = "missing" -> "not_found"
                   [] input_file.kind = "invalid_json" -> "invalid_json"
                   [] OTHER -> "adding"
    /\ loaded' = IF input_file.kind = "json" THEN input_file.value ELSE loaded
    /\ UNCHANGED <<input_file, gen_k, entries, feed_written, ex_vars, sc_vars, du_vars>>

Iterable(v) == v.type \in {"array", "object", "string"}

\* line 163 on a value that is not iterable: TypeError leaves main
iteration_fails ==
    /\ gen_pc = "adding"
    /\ ~Iterable(loaded)
    /\ gen_pc' = "crashed"
    /\ UNCHANGED <<input_file, loaded, gen_k, entries, feed_written, ex_vars, sc_vars, du_vars>>

\* one iteration of add_episodes: add_episode on the next element; on an
\* element that is not a dictionary .get raises AttributeError
add_episode ==
    /\ gen_pc = "adding"
    /\ Iterable(loaded)
    /\ gen_k <= Len(loaded.items)
    /\ LET episode_data == loaded.items[gen_k]
       IN  IF episode_data.is_dict
           THEN /\ entries' = add_entry(entries, FeedEntry(episode_data))
                /\ gen_pc' = "adding"
                /\ gen_k' = gen_k + 1
           ELSE /\ entries' = add_entry(entries, BlankEntry)
                /\ gen_pc' = "crashed"
                /\ UNCHANGED gen_k
    /\ UNCHANGED <<input_file, loaded, feed_written, ex_vars, sc_vars, du_vars>>

\* lines 166-174 and 206
generate ==
    /\ gen_pc = "adding"
    /\ Iterable(loaded)
    /\ gen_k > Len(loaded.items)
    /\ feed_written' = TRUE
    /\ gen_pc' = "finished"
    /\ UNCHANGED <<input_file, loaded, gen_k, entries, ex_vars, sc_vars, du_vars>>

GeneratorInit ==
    /\ input_file \in InputFiles
    /\ GeneratorIdle
    /\ page = FirstPage /\ ExtractIdle
    /\ listing = <<>> /\ max_episodes = 0 /\ ScraperIdle
    /\ duration_str = <<>> /\ DurationIdle

GeneratorNext == load_input \/ iteration_fails \/ add_episode \/ generate

SpecGenerator == GeneratorInit /\ [][GeneratorNext]_vars

-----------------------------------------------------------------------------
(* Properties of get_episode_details *)

Returned == ex_pc = "returned"

NoStringlessScript == \A i \in 1..Len(page.scripts) : page.scripts[i] # "empty"

\* the embedded object the page carries, if any
Embedded == _extract_json_data(page.scripts, page.ld).data

EmbeddedTitle == Embedded # NoDict /\ Truthy(Embedded[1].name)

\* C1: every successfully fetched episode is discarded if and only if neither
\* the embedded structured data nor the h1 heading yields a non-empty title,
\* and a record whose embedded name is empty or null carries the h1 title.
\* Stated for the pages all of whose ld+json scripts have string content.
C1_DroppedIffNoTitle ==
    (Returned /\ ex_fetch = "ok" /\ NoStringlessScript) =>
        /\ (ex_result = NoDict) <=> ~(EmbeddedTitle \/ Truthy(page.h1))
        /\ (ex_result # NoDict /\ ~EmbeddedTitle) => ex_result[1].title = page.h1

\* every ld+json script of the page is unparsable, string-less or not an object
OnlyMalformedScripts ==
    /\ page.scripts # <<>>
    /\ \A i \in 1..Len(page.scripts) : page.scripts[i] \in {"empty", "malformed", "not_object"}

MarkupValue(v) == IF v = Absent THEN None ELSE v

\* C2: a fetched page whose ld+json scripts are all malformed (unparsable,
\* without string content, or not an object) is resolved from the markup: a
\* record is returned whenever the h1 heading gives a title, and its fields are
\* the markup's.
C2_MalformedIsAbsence ==
    (Returned /\ ex_fetch = "ok" /\ OnlyMalformedScripts) =>
        /\ (ex_result # NoDict) <=> Truthy(page.h1)
        /\ ex_result # NoDict =>
             /\ ex_result[1].title = page.h1
             /\ ex_result[1].description = (IF Truthy(page.meta_description) THEN page.meta_description ELSE "")
             /\ ex_result[1].pub_date = MarkupValue(page.time_datetime)
             /\ ex_result[1].image_url = MarkupValue(page.og_image)
             /\ ex_result[1].duration = None

\* the API answer holds no usable URL
ApiUnusable(api) == api.kind # "items" \/ ~Truthy(FirstItemUrl(api.items))

WithoutAudio(result) == IF result = NoDict THEN NoDict ELSE Some([result[1] EXCEPT !.audio_url = None])

\* C10: in one extraction the API is fetched at most once and never when the
\* embedded object carries contentUrl; what the API answers changes nothing
\* but audio_url (it neither drops the episode nor alters another field), and
\* a failed or unusable answer leaves audio_url absent.
C10_ApiOnlyForAudioUrl ==
    Returned =>
        /\ ex_api_calls <= 1
        /\ (ex_api_calls = 0) <=> (ex_api = NotCalled)
        /\ (Embedded # NoDict /\ Embedded[1].contentUrl # Absent) => ex_api_calls = 0
        /\ ex_api_calls = 1 =>
             /\ \A other \in ApiResponses :
                    WithoutAudio(EpisodeDetails(ExtractUrl, ex_fetch, page, other).result)
                        = WithoutAudio(ex_result)
             /\ (ApiUnusable(ex_api) /\ ex_result # NoDict) => ~Truthy(ex_result[1].audio_url)

\* the API failed for a page without contentUrl and the record is returned without audio
C10_Witness ==
    /\ Returned /\ ex_api_calls = 1 /\ ex_api.kind = "error"
    /\ Embedded # NoDict /\ Embedded[1].contentUrl = Absent
    /\ ex_result # NoDict /\ ex_result[1].audio_url = None /\ ex_result[1].title = "ld title"

-----------------------------------------------------------------------------
(* Properties of get_episodes_list *)

Discovered == sc_pc # "start" /\ listing_fetch = "ok"

FullAt(k) == urljoin(BASE_URL, listing[k])

Eligible(k) == ContainsProgramPath(listing[k]) /\ listing[k] # PROGRAM_URL

\* the positions of the listing where an eligible URL occurs for the first time
FirstOccurrences ==
    { k \in 1..Len(listing) :
        Eligible(k) /\ \A m \in 1..(k - 1) : Eligible(m) => FullAt(m) # FullAt(k) }

NthFirstOccurrence(i) ==
    CHOOSE k \in FirstOccurrences : Cardinality({m \in FirstOccurrences : m <= k}) = i

Min(a, b) == IF a < b THEN a ELSE b

\* C4: the episode URLs processed hold each distinct URL at most once, in
\* order of first occurrence in the listing, and are the first max_episodes
\* elements of the deduplicated sequence.
C4_NoDuplicateUrls ==
    Discovered =>
        /\ \A i, j \in 1..Len(episode_links) : i # j => episode_links[i] # episode_links[j]
        /\ Len(episode_links) = Min(max_episodes, Cardinality(FirstOccurrences))
        /\ \A i \in 1..Len(episode_links) : episode_links[i] = FullAt(NthFirstOccurrence(i))

\* a listing that repeats an episode, once relative and once absolute, cut by max_episodes
C4_Witness ==
    /\ Discovered
    /\ Len(episode_links) = 1 /\ max_episodes = 1 /\ Cardinality(FirstOccurrences) = 2
    /\ \E a, b \in 1..Len(listing) : a # b /\ listing[a] # listing[b] /\ Eligible(a) /\ FullAt(a) = FullAt(b)

RECURSIVE Successes(_)
Successes(log) ==
    IF log = <<>> THEN <<>>
    ELSE IF Head(log)[2] # NoDict THEN <<Head(log)[2][1]>> \o Successes(Tail(log))
    ELSE Successes(Tail(log))

\* C5: whatever fails for single episodes, every discovered URL is visited
\* exactly once, in order, and the records returned are exactly those of the
\* episodes that did not fail, in discovery order.
C5_BatchSurvivesFailures ==
    /\ Len(visited) <= Len(episode_links)
    /\ \A i \in 1..Len(visited) : visited[i][1] = episode_links[i]
    /\ episodes = Successes(visited)
    /\ (sc_pc = "done" /\ listing_fetch = "ok") => Len(visited) = Len(episode_links)

\* the first episode failed and the second one was still processed and returned
C5_Witness ==
    /\ sc_pc = "done" /\ Len(visited) = 2
    /\ visited[1][2] = NoDict /\ visited[2][2] # NoDict
    /\ Len(episodes) = 1 /\ episodes[1].url = episode_links[2]

\* C9: no URL processed by get_episodes_list is the program (listing) URL.
C9_ListingPageExcluded ==
    Discovered => \A i \in 1..Len(episode_links) : episode_links[i] # PROGRAM_URL

-----------------------------------------------------------------------------
(* Properties of _parse_duration *)

IsTwoDigits(s, i) == s[i] \in Digits /\ s[i + 1] \in Digits

\* C8: the output always has the form HH:MM:SS with exactly two digits per
\* component, and an empty or unparsable input yields "00:00:00".
C8_AlwaysTwoDigits ==
    du_pc = "returned" =>
        /\ Len(duration_out) = 8
        /\ IsTwoDigits(duration_out, 1) /\ duration_out[3] = ":"
        /\ IsTwoDigits(duration_out, 4) /\ duration_out[6] = ":"
        /\ IsTwoDigits(duration_out, 7)
        /\ (duration_str = <<>> \/ ~MatchesPT(duration_str)) => duration_out = ZeroDuration

-----------------------------------------------------------------------------
(* Properties of the feed generator *)

RecordsIn == loaded.items

\* C3: for N well-formed records add_episodes leaves exactly N entries, in
\* the document in the same relative order as the records of the input.
C3_EntriesInInputOrder ==
    (gen_pc = "finished" /\ ValidInput(input_file)) =>
        /\ Len(entries) = Len(RecordsIn)
        /\ \A i \in 1..Len(entries) : entries[i].title = RecordsIn[i].title

\* C6: a missing or malformed input (no file, invalid JSON, or JSON that is
\* not an array of episode records) never reaches generate: no feed is written.
C6_NoOutputOnBadInput ==
    ~ValidInput(input_file) => ~feed_written

\* the entry made from the i-th record processed
EntryOf(i) == entries[Len(entries) + 1 - i]

\* C7: every record processed has exactly one entry, with title, description,
\* guid, publish date and author, and with an enclosure if and only if the
\* record's audio_url is non-empty (not absent, null or empty).
C7_EnclosureIffAudioUrl ==
    (ValidInput(input_file) /\ gen_pc \in {"adding", "finished"}) =>
        /\ Len(entries) = gen_k - 1
        /\ \A i \in 1..Len(entries) :
             LET r == RecordsIn[i]
                 e == EntryOf(i)
             IN  /\ e.title = r.title
                 /\ e.description = r.description
                 /\ e.guid # <<>> /\ e.pubDate # NoDict /\ e.author = "RTVE"
                 /\ (e.enclosure # NoDict) <=> (r.audio_url \notin {Absent, None, ""})
                 /\ e.enclosure # NoDict => e.enclosure[1].url = r.audio_url

\* a record without audio_url next to one with it, both in the written feed
C7_Witness ==
    /\ gen_pc = "finished" /\ feed_written /\ Len(entries) = 2
    /\ RecordsIn[1].audio_url = "" /\ EntryOf(1).enclosure = NoDict
    /\ EntryOf(1).title = "A" /\ EntryOf(1).guid = <<"de-nit-", "ep1">>
    /\ RecordsIn[2].audio_url = "ep1.m4a" /\ EntryOf(2).enclosure # NoDict

=============================================================================
